---- MODULE Spec2Model ----
(***************************************************************************)
(* Model of abnf-to-tree-sitter (src/src/main.js): the translator from an  *)
(* ABNF concrete syntax tree to a tree-sitter grammar.js text, and the     *)
(* generate() loop that feeds tree-sitter's diagnostics back into the      *)
(* session.                                                                *)
(*                                                                         *)
(* Text is modelled as a sequence of chunks.  Rule names and the other     *)
(* leaf texts of the syntax tree are spelled one character per chunk;      *)
(* the fixed pieces of the JavaScript templates are one chunk each.        *)
(* A syntax node is a record [type, text, children].                       *)
(***************************************************************************)
EXTENDS Integers, Sequences, FiniteSets, TLC

\* ------------------------------------------------------------------ bounds
MaxAttempts == 3
MaxRepeat == 3
MaxHexTokens == 8

\* ------------------------------------------------------------ text helpers
Whitespace == {" ", "\t", "\n", "\r", "    ", "\n      "}

RECURSIVE TrimLeft(_)
TrimLeft(s) ==
    IF s # <<>> /\ Head(s) \in Whitespace THEN TrimLeft(Tail(s)) ELSE s

RECURSIVE TrimRight(_)
TrimRight(s) ==
    IF s # <<>> /\ s[Len(s)] \in Whitespace
    THEN TrimRight(SubSeq(s, 1, Len(s) - 1))
    ELSE s

Trim(s) == TrimLeft(TrimRight(s))

\* String.prototype.replace(/c/g, to)
RECURSIVE ReplaceAll(_, _, _)
ReplaceAll(s, c, to) ==
    IF s = <<>> THEN <<>>
    ELSE (IF Head(s) = c THEN to ELSE <<Head(s)>>) \o ReplaceAll(Tail(s), c, to)

Includes(arr, x) == \E i \in DOMAIN arr : arr[i] = x

\* the value undefined, which a template prints as "undefined"
Undefined == <<"undefined">>

\* Array.prototype.join: undefined elements are joined as ''
RECURSIVE Join(_, _)
Join(arr, sep) ==
    IF arr = <<>> THEN <<>>
    ELSE LET h == IF Head(arr) = Undefined THEN <<>> ELSE Head(arr)
         IN IF Len(arr) = 1 THEN h ELSE h \o sep \o Join(Tail(arr), sep)

\* Array(n).fill(x), for a valid length n
Fill(n, x) == [i \in 1..n |-> x]

\* String.prototype.padStart(n, c)
RECURSIVE PadStart(_, _, _)
PadStart(s, n, c) == IF Len(s) >= n THEN s ELSE PadStart(<<c>> \o s, n, c)

\* exceptions: a thrown exception is a marker chunk in the text, which every
\* enclosing template carries up to the caller
Exceptions == {"!AssertionError", "!TypeError", "!RangeError"}
Thrown(text) == \E i \in DOMAIN text : text[i] \in Exceptions

\* NaN and Infinity: two values outside the array lengths.  Array(n) throws
\* a RangeError for NaN and for every n < 0.
NaN == -1
Infinity == -2
Minus(a, b) == IF a = NaN \/ b = NaN THEN NaN ELSE a - b

DigitValue(c) ==
    CASE c = "0" -> 0 [] c = "1" -> 1 [] c = "2" -> 2 [] c = "3" -> 3
      [] c = "4" -> 4 [] c = "5" -> 5 [] c = "6" -> 6 [] c = "7" -> 7
      [] c = "8" -> 8 [] c = "9" -> 9 [] OTHER -> NaN

\* parseInt(s): the leading decimal digits of s, NaN when there are none
RECURSIVE ParseIntAcc(_, _)
ParseIntAcc(s, acc) ==
    IF s = <<>> \/ DigitValue(Head(s)) = NaN THEN acc
    ELSE ParseIntAcc(Tail(s), 10 * (IF acc = NaN THEN 0 ELSE acc) + DigitValue(Head(s)))

parseInt(s) == ParseIntAcc(s, NaN)

\* ------------------------------------------------------------ syntax nodes
\* types of the anonymous (punctuation) nodes of tree-sitter-abnf
AnonTypes == {"x", ".", "-", "%", "*", "=", "/=", "/", "(", ")", "[", "]"}

IsNamed(n) == n.type \notin AnonTypes
namedChildren(node) == SelectSeq(node.children, IsNamed)

RECURSIVE descendantsOfType(_, _)
RECURSIVE descendantsOfTypeAll(_, _)
descendantsOfTypeAll(nodes, type) ==
    IF nodes = <<>> THEN <<>>
    ELSE (IF Head(nodes).type = type THEN <<Head(nodes)>> ELSE <<>>)
         \o descendantsOfType(Head(nodes), type)
         \o descendantsOfTypeAll(Tail(nodes), type)
descendantsOfType(node, type) == descendantsOfTypeAll(node.children, type)

\* the texts of a list of nodes, joined
RECURSIVE TextOf(_)
TextOf(nodes) == IF nodes = <<>> THEN <<>> ELSE Head(nodes).text \o TextOf(Tail(nodes))

\* Array.prototype.findIndex, given for each element whether it satisfies the
\* predicate: 0-based, -1 when no element does
findIndex(hits) ==
    IF \E i \in DOMAIN hits : hits[i]
    THEN (CHOOSE i \in DOMAIN hits : hits[i] /\ \A j \in 1..(i - 1) : ~hits[j]) - 1
    ELSE -1

\* Array.prototype.slice(from, to) and slice(from), 0-based, to exclusive
slice(arr, from, to) == SubSeq(arr, from + 1, to)
sliceFrom(arr, from) == SubSeq(arr, from + 1, Len(arr))

\* --------------------------------------------------------------- main.js:6
normalizeRulename(name) == ReplaceAll(Trim(name), "-", <<"_">>)

\* ------------------------------------------------------------ main.js:35-37
\* unsupported(node) reads node.type.toString(): given a string instead of a
\* node, node.type is undefined and the read throws a TypeError
NoTypeProperty == "<no type>"
unsupported(type) == IF type = NoTypeProperty THEN <<"!TypeError">> ELSE <<>>

\* ------------------------------------------------------------ main.js:39-57
CoreDef(name, body) == <<"    ">> \o name \o <<": $ =>", " ">> \o body
coreRules(includeCoreRules) ==
    IF ~includeCoreRules THEN <<>>
    ELSE <<",\n    // Rules defined in RFC 5234, Appendix B.\n">>
      \o CoreDef(<<"A","L","P","H","A">>, <<"/[A-Za-z]/">>) \o <<",\n">>
      \o CoreDef(<<"B","I","T">>, <<"choice(", "\"0\"", ", ", "\"1\"", ")">>) \o <<",\n">>
      \o CoreDef(<<"D","I","G","I","T">>, <<"/[0-9]/">>) \o <<",\n">>
      \o CoreDef(<<"C","R">>, <<"\"\\r\"">>) \o <<",\n">>
      \o CoreDef(<<"C","R","L","F">>,
                 <<"seq(", "$.", "C", "R", ", ", "$.", "L", "F", ")">>) \o <<",\n">>
      \o CoreDef(<<"D","Q","U","O","T","E">>, <<"\"\\\"\"">>) \o <<",\n">>
      \o CoreDef(<<"H","E","X","D","I","G">>, <<"/[0-9A-Fa-f]/">>) \o <<",\n">>
      \o CoreDef(<<"H","T","A","B">>, <<"\"\\t\"">>) \o <<",\n">>
      \o CoreDef(<<"L","F">>, <<"\"\\n\"">>) \o <<",\n">>
      \o CoreDef(<<"S","P">>, <<"\" \"">>) \o <<",\n">>
      \o CoreDef(<<"V","C","H","A","R">>, <<"/[\\x21-\\x7E]/">>) \o <<",\n">>
      \o CoreDef(<<"W","S","P">>,
                 <<"choice(", "$.", "S", "P", ", ", "$.", "H", "T", "A", "B", ")">>)
      \o <<"\n">>

\* ---------------------------------------------------------- main.js:145-181
IsStar(x) == x.text = <<"*">>

\* the bounded branch emitting upperBound optional copies after the required
\* ones, instead of upperBound - lowerBound
convertRepeatUpperOptionals(repeat, element) ==
    LET ch == repeat.children
        starIndex == findIndex([i \in DOMAIN ch |-> IsStar(ch[i])])
    IN
    IF Thrown(element) THEN element
    ELSE IF starIndex >= 0 THEN
        LET lowerBound == IF starIndex = 0 THEN 0
                          ELSE parseInt(TextOf(slice(ch, 0, starIndex)))
            upperBound == IF starIndex + 1 = Len(ch) THEN Infinity
                          ELSE parseInt(TextOf(sliceFrom(ch, starIndex + 1)))
        IN
        IF upperBound = Infinity THEN
            CASE lowerBound = 0 -> <<"repeat(">> \o element \o <<")">>
              [] lowerBound = 1 -> <<"repeat1(">> \o element \o <<")">>
              [] OTHER ->
                   IF lowerBound < 0 THEN <<"!RangeError">>
                   ELSE <<"seq(">> \o Join(Fill(lowerBound, element), <<", ">>)
                        \o <<", ", "repeat(">> \o element \o <<")", ")">>
        ELSE
            IF Minus(upperBound, lowerBound) < 0 THEN <<"!RangeError">>
            ELSE
              LET optionals ==
                    Join(Fill(upperBound, <<"optional(">> \o element \o <<")">>), <<", ">>)
              IN IF lowerBound = 0
                 THEN <<"seq(">> \o optionals \o <<")">>
                 ELSE <<"seq(">> \o Join(Fill(lowerBound, element), <<", ">>)
                      \o <<", ">> \o optionals \o <<")">>
    ELSE
        LET n == parseInt(TextOf(ch))
        IN IF n < 0 THEN <<"!RangeError">>
           ELSE <<"seq(">> \o Join(Fill(n, element), <<", ">>) \o <<")">>

\* case 'repetition' for a node with two named children: repeat is the
\* repeat-operator node, element the converted text of its sibling
convertRepeat(repeat, element) ==
    LET ch == repeat.children
        starIndex == findIndex([i \in DOMAIN ch |-> IsStar(ch[i])])
    IN
    IF Thrown(element) THEN element
    ELSE IF starIndex >= 0 THEN
        LET lowerBound == IF starIndex = 0 THEN 0
                          ELSE parseInt(TextOf(slice(ch, 0, starIndex)))
            upperBound == IF starIndex + 1 = Len(ch) THEN Infinity
                          ELSE parseInt(TextOf(sliceFrom(ch, starIndex + 1)))
        IN
        IF upperBound = Infinity THEN
            CASE lowerBound = 0 -> <<"repeat(">> \o element \o <<")">>
              [] lowerBound = 1 -> <<"repeat1(">> \o element \o <<")">>
              [] OTHER ->
                   IF lowerBound < 0 THEN <<"!RangeError">>
                   ELSE <<"seq(">> \o Join(Fill(lowerBound, element), <<", ">>)
                        \o <<", ", "repeat(">> \o element \o <<")", ")">>
        ELSE
            IF Minus(upperBound, lowerBound) < 0 THEN <<"!RangeError">>
            ELSE
              LET optionals ==
                    Join(Fill(Minus(upperBound, lowerBound),
                              <<"optional(">> \o element \o <<")">>), <<", ">>)
              IN IF lowerBound = 0
                 THEN <<"seq(">> \o optionals \o <<")">>
                 ELSE <<"seq(">> \o Join(Fill(lowerBound, element), <<", ">>)
                      \o <<", ">> \o optionals \o <<")">>
    ELSE
        LET n == parseInt(TextOf(ch))
        IN IF n < 0 THEN <<"!RangeError">>
           ELSE <<"seq(">> \o Join(Fill(n, element), <<", ">>) \o <<")">>

\* ---------------------------------------------------------- main.js:209-253
IsDash(x) == x.type = "-"
IsHexdig(x) == x.type = "HEXDIG"

\* the loop of main.js:233-240 over the children from index i (1-based here)
RECURSIVE hexTriples(_, _)
hexTriples(ch, i) ==
    IF i > Len(ch) THEN <<>>
    ELSE IF ch[i].type \notin {"x", "."} THEN <<"!AssertionError">>
    ELSE IF ch[i + 1].type # "HEXDIG" \/ ch[i + 2].type # "HEXDIG"
         THEN <<"!AssertionError">>
    ELSE <<"\\x">> \o ch[i + 1].text \o ch[i + 2].text \o hexTriples(ch, i + 3)

\* the loop of main.js:245-249
RECURSIVE hexDigits(_, _)
hexDigits(ch, i) ==
    IF i > Len(ch) THEN <<>>
    ELSE IF ch[i].type # "HEXDIG" THEN <<"!AssertionError">>
    ELSE ch[i].text \o hexDigits(ch, i + 1)

convertHexVal(node) ==
    LET ch == node.children
        rangeSepIndex == findIndex([i \in DOMAIN ch |-> IsDash(ch[i])])
    IN
    IF Len(ch) = 0 THEN <<"!AssertionError">>
    ELSE IF rangeSepIndex >= 0 THEN
        LET beforeSep == PadStart(TextOf(SelectSeq(slice(ch, 0, rangeSepIndex), IsHexdig)), 4, "0")
            afterSep == PadStart(TextOf(SelectSeq(sliceFrom(ch, rangeSepIndex + 1), IsHexdig)), 4, "0")
        IN <<"/[", "\\u">> \o beforeSep \o <<"-", "\\u">> \o afterSep \o <<"]/">>
    ELSE IF Len(ch) % 3 = 0 THEN
        LET hexChars == hexTriples(ch, 1)
        IN IF Thrown(hexChars) THEN <<"!AssertionError">>
           ELSE <<"\"">> \o hexChars \o <<"\"">>
    ELSE IF Len(ch) <= 7 THEN
        IF ch[1].type # "x" THEN <<"!AssertionError">>
        ELSE LET hexChars == hexDigits(ch, 2)
             IN IF Thrown(hexChars) THEN <<"!AssertionError">>
                ELSE <<"\"", "\\u">> \o PadStart(hexChars, 4, "0") \o <<"\"">>
    ELSE
        \* unsupported(node), then falls through to the default case
        unsupported(node.type) \o unsupported(node.type) \o Undefined

\* ------------------------------------------------------------ main.js:77-259
\* ctx holds the arguments of toTreeSitter that convert closes over
IsNotComment(x) == x.type # "comment"
IsBlank(x) == \A i \in DOMAIN x : x[i] \in Whitespace

RECURSIVE convert(_, _)

\* main.js:59-75
inlineRuleFuncs(node, ctx) ==
    IF node.type # "source_file" \/ Len(node.children) # 1 THEN <<"!AssertionError">>
    ELSE
      LET rules == descendantsOfType(node.children[1], "rule")
          IsInlined(x) ==
              Includes(ctx.inlineRules,
                       normalizeRulename(descendantsOfType(x, "rulename")[1].text))
          sel == SelectSeq(rules, IsInlined)
          func(x) ==
              <<"const ">> \o normalizeRulename(descendantsOfType(x, "rulename")[1].text)
              \o <<" = $ => ">> \o convert(descendantsOfType(x, "elements")[1], ctx)
              \o <<";">>
      IN Join([i \in DOMAIN sel |-> func(sel[i])], <<"\n">>)

\* case 'rule', main.js:111-128
convertRule(node, ctx) ==
    LET rn == descendantsOfType(node, "rulename")
        name == convert(rn[1], ctx)
        marked == IF Includes(ctx.hiddenRules, name) THEN <<"_">> \o name ELSE name
        defType == convert(descendantsOfType(node, "defined_as")[1], ctx)
        elements == convert(descendantsOfType(node, "elements")[1], ctx)
        report == IF defType = <<"/", "=">> THEN unsupported(NoTypeProperty) ELSE <<>>
    IN
    IF rn = <<>> THEN <<"!TypeError">>
    ELSE IF Includes(ctx.inlineRules, name) THEN <<>>
    ELSE IF Thrown(report) THEN report
    ELSE <<"    ">> \o marked \o <<": $ =>", "\n      ">> \o elements

\* case 'element', main.js:184-198
convertElement(node, ctx) ==
    LET first == namedChildren(node)[1]
        name == normalizeRulename(Trim(node.text))
    IN
    IF namedChildren(node) = <<>> THEN <<"!TypeError">>
    ELSE IF first.type \in {"rulename", "core_rulename"} THEN
        IF Includes(ctx.inlineRules, name) THEN name \o <<"($)">>
        ELSE IF Includes(ctx.hiddenRules, name) THEN <<"$.">> \o (<<"_">> \o name)
        ELSE <<"$.">> \o name
    ELSE convert(first, ctx)

\* cases 'alternation' and 'concatenation', main.js:133-144
convertList(node, ctx, combinator) ==
    LET nc == namedChildren(node)
        kept == SelectSeq(nc, IsNotComment)
    IN
    IF ~(Len(nc) >= 1) THEN <<"!AssertionError">>
    ELSE IF Len(nc) = 1 THEN convert(nc[1], ctx)
    ELSE <<combinator>> \o Join([i \in DOMAIN kept |-> convert(kept[i], ctx)], <<", ">>)
         \o <<")">>

\* case 'repetition', main.js:145-153
convertRepetition(node, ctx) ==
    LET nc == namedChildren(node)
        pos == CHOOSE i \in DOMAIN node.children : IsNamed(node.children[i])
                   /\ \A j \in 1..(i - 1) : ~IsNamed(node.children[j])
    IN
    IF ~(Len(nc) >= 1) THEN <<"!AssertionError">>
    ELSE IF Len(nc) = 1 THEN convert(nc[1], ctx)
    ELSE IF Len(nc) # 2 THEN <<"!AssertionError">>
    ELSE IF pos + 1 > Len(node.children) THEN <<"!TypeError">>
    ELSE convertRepeat(nc[1], convert(node.children[pos + 1], ctx))

\* case 'rulelist', main.js:101-108
convertRulelist(node, ctx) ==
    LET nc == namedChildren(node)
        conv == [i \in DOMAIN nc |-> convert(nc[i], ctx)]
        NotBlank(x) == ~IsBlank(x)
    IN
    IF \E i \in DOMAIN conv : Thrown(conv[i])
    THEN conv[CHOOSE i \in DOMAIN conv : Thrown(conv[i])
                 /\ \A j \in 1..(i - 1) : ~Thrown(conv[j])]
    ELSE IF \E i \in DOMAIN conv : conv[i] = Undefined THEN <<"!TypeError">>
    ELSE Join(SelectSeq(conv, NotBlank), <<",\n">>)

\* case 'source_file', main.js:79-98
convertSourceFile(node, ctx) ==
    IF Len(namedChildren(node)) # 1 THEN <<"!AssertionError">>
    ELSE <<"\n">> \o inlineRuleFuncs(node, ctx)
      \o <<"\n\nmodule.exports = grammar({\n  name: '">> \o ctx.langName
      \o <<"',\n\n  conflicts: $ => [\n    ">>
      \o Join(ctx.conflicts, <<",\n    ">>)
      \o <<"\n  ],\n\n  rules: {\n    // start rule\n">>
      \o <<"    ", "s","o","u","r","c","e","_","f","i","l","e", ": $ =>", " ", "$.">>
      \o ctx.startRule \o <<",\n\n">>
      \o convert(namedChildren(node)[1], ctx)
      \o <<"\n    ">> \o coreRules(ctx.includeCoreRules)
      \o <<"\n  }\n});">>

convert(node, ctx) ==
    CASE node.type = "source_file" -> convertSourceFile(node, ctx)
      [] node.type = "comment" -> <<"    // ">> \o TrimRight(node.text)
      [] node.type = "rulelist" -> convertRulelist(node, ctx)
      [] node.type = "elements" ->
           LET nc == namedChildren(node)
           IN Join([i \in DOMAIN nc |-> convert(nc[i], ctx)], <<",">>)
      [] node.type = "rule" -> convertRule(node, ctx)
      [] node.type = "rulename" -> normalizeRulename(node.text)
      [] node.type = "defined_as" -> Trim(node.text)
      [] node.type = "alternation" -> convertList(node, ctx, "choice(")
      [] node.type = "concatenation" -> convertList(node, ctx, "seq(")
      [] node.type = "repetition" -> convertRepetition(node, ctx)
      [] node.type = "option" ->
           IF namedChildren(node) = <<>> THEN <<"!TypeError">>
           ELSE <<"optional(">> \o convert(namedChildren(node)[1], ctx) \o <<")">>
      [] node.type = "element" -> convertElement(node, ctx)
      [] node.type \in {"group", "char_val", "case_insensitive_string"} ->
           IF namedChildren(node) = <<>> THEN <<"!TypeError">>
           ELSE convert(namedChildren(node)[1], ctx)
      [] node.type = "quoted_string" -> ReplaceAll(node.text, "\\", <<"\\", "\\">>)
      [] node.type = "num_val" ->
           IF Len(node.children) # 2 \/ node.children[1].type # "%"
           THEN <<"!AssertionError">>
           ELSE convert(node.children[2], ctx)
      [] node.type = "hex_val" -> convertHexVal(node)
      [] OTHER -> unsupported(node.type) \o Undefined

\* main.js:34 and 261-262: the text, or the exception that ended the call
toTreeSitter(abnfTree, ctx) ==
    LET grammar == convert(abnfTree, ctx)
    IN IF Thrown(grammar)
       THEN [thrown |-> TRUE,
             text |-> <<grammar[CHOOSE i \in DOMAIN grammar : grammar[i] \in Exceptions
                          /\ \A j \in 1..(i - 1) : grammar[j] \notin Exceptions]>>]
       ELSE [thrown |-> FALSE, text |-> grammar]

\* ------------------------------------------- syntax trees of tree-sitter-abnf
\* The shapes the parser hands to convert: a leaf carries its source text, an
\* inner node the text of its children.
Leaf(type, text) == [type |-> type, text |-> text, children |-> <<>>]
Node(type, children) == [type |-> type, text |-> TextOf(children), children |-> children]

Rulename(name) == Leaf("rulename", name)
Comment(text) == Leaf("comment", text)
RefElement(name) == Node("element", <<Rulename(name)>>)
CoreElement(name) == Node("element", <<Leaf("core_rulename", name)>>)
QuotedElement(text) ==
    Node("element", <<Node("char_val", <<Node("case_insensitive_string",
                                               <<Leaf("quoted_string", text)>>)>>)>>)
Repetition1(element) == Node("repetition", <<element>>)
Repetition(repeat, element) == Node("repetition", <<Node("repeat", repeat), element>>)
Concatenation(items) == Node("concatenation", items)
Alternation(items) == Node("alternation", items)
Rule(name, op, alternation) ==
    Node("rule", <<Rulename(name), Leaf("defined_as", <<" ">> \o op \o <<" ">>),
                   Node("elements", <<alternation>>)>>)
SourceFile(rules) == Node("source_file", <<Node("rulelist", rules)>>)

\* one element as a whole alternation, and a sequence of elements
Single(element) == Alternation(<<Concatenation(<<Repetition1(element)>>)>>)
SeqOf(elements) ==
    Alternation(<<Concatenation([i \in DOMAIN elements |-> Repetition1(elements[i])])>>)

Star == Leaf("*", <<"*">>)
Digit(n) == Leaf("DIGIT", <<CHOOSE c \in {"0","1","2","3","4","5","6","7","8","9"} :
                              DigitValue(c) = n>>)
Digits(n) == IF n < 10 THEN <<Digit(n)>> ELSE <<Digit(n \div 10), Digit(n % 10)>>

\* --------------------------------------------------- reading a descriptor
\* What the generator reads in an emitted grammar.js: a rule is defined where
\* an identifier is followed by ": $ =>", referenced where "$." is followed
\* by an identifier, and invoked inline where an identifier is followed by
\* "($)".
IdChars ==
    {"a","b","c","d","e","f","g","h","i","j","k","l","m","n","o","p","q","r","s",
     "t","u","v","w","x","y","z","A","B","C","D","E","F","G","H","I","J","K","L",
     "M","N","O","P","Q","R","S","T","U","V","W","X","Y","Z","0","1","2","3","4",
     "5","6","7","8","9","_"}

RECURSIVE IdBefore(_, _)
IdBefore(text, i) ==
    IF i >= 1 /\ text[i] \in IdChars THEN IdBefore(text, i - 1) \o <<text[i]>> ELSE <<>>

RECURSIVE IdAfter(_, _)
IdAfter(text, i) ==
    IF i <= Len(text) /\ text[i] \in IdChars THEN <<text[i]>> \o IdAfter(text, i + 1) ELSE <<>>

DefinedAt(text) == {i \in DOMAIN text : text[i] = ": $ =>"}
DefinedNames(text) == {IdBefore(text, i - 1) : i \in DefinedAt(text)}
References(text) == {IdAfter(text, i + 1) : i \in {j \in DOMAIN text : text[j] = "$."}}
InlineCalls(text) == {IdBefore(text, i - 1) : i \in {j \in DOMAIN text : text[j] = "($)"}}

ConflictsOpen == "',\n\n  conflicts: $ => [\n    "
RulesOpen == "\n  ],\n\n  rules: {\n    // start rule\n"
Has(text, chunk) == \E i \in DOMAIN text : text[i] = chunk
IndexOf(text, chunk) == CHOOSE i \in DOMAIN text : text[i] = chunk
ConflictsSection(text) ==
    IF Has(text, ConflictsOpen) /\ Has(text, RulesOpen)
    THEN SubSeq(text, IndexOf(text, ConflictsOpen) + 1, IndexOf(text, RulesOpen) - 1)
    ELSE <<>>
RulesSection(text) ==
    IF Has(text, RulesOpen)
    THEN SubSeq(text, IndexOf(text, RulesOpen) + 1, Len(text))
    ELSE <<>>

SourceFileName == <<"s","o","u","r","c","e","_","f","i","l","e">>
CoreNames == DefinedNames(coreRules(TRUE))

\* ----------------------------------------------------------- main.js:303-312
\* the diagnostics of tree-sitter generate, as texts; the backquote character
\* of the messages and of the patterns is written ^ in this module
EmptyStringText(X) == <<"The rule ^">> \o X \o <<"^ matches the empty string.", "\n">>
PrecedenceText(X) ==
    <<"Specify a higher precedence in ^">> \o X \o <<"^ than in the other rules.", "\n">>
AssociativityText(X) ==
    <<"Specify a left or right associativity in ^">> \o X \o <<"^", "\n">>
ConflictText(A, B) ==
    <<"Add a conflict for these rules: ", "^">> \o A \o <<"^", ",", " ", "^">> \o B
    \o <<"^", "\n">>
UnknownText == <<"Error: unresolved conflict", "\n">>

NoMatch == <<"<null>">>

\* err.match(pattern)[1], the name between the backquotes: the capture of the leftmost match
matchName(err, pre, post) ==
    LET Ends(i) == {j \in (i + 1)..Len(err) :
                      err[j] = post /\ \A k \in (i + 1)..(j - 1) : err[k] # "^"}
        Starts == {i \in DOMAIN err : err[i] = pre /\ Ends(i) # {}}
    IN IF Starts = {} THEN NoMatch
       ELSE LET i == CHOOSE i \in Starts : \A k \in Starts : i <= k
                j == CHOOSE j \in Ends(i) : \A k \in Ends(i) : j <= k
            IN SubSeq(err, i + 1, j - 1)

\* main.js:309
emptyStringErr(err) == matchName(err, "The rule ^", "^ matches the empty string.")
\* main.js:310
higherPrecedence(err) ==
    matchName(err, "Specify a higher precedence in ^", "^ than in the other rules.")
\* main.js:311
associativity(err) == matchName(err, "Specify a left or right associativity in ^", "^")
\* main.js:312: the add-conflict pattern, greedy within the line
addConflict(err) ==
    LET pre == "Add a conflict for these rules: "
        Ends(i) == {j \in (i + 2)..Len(err) :
                      err[j] = "^" /\ \A k \in (i + 1)..j : err[k] # "\n"}
        Starts == {i \in DOMAIN err :
                      err[i] = pre /\ i < Len(err) /\ err[i + 1] = "^" /\ Ends(i) # {}}
    IN IF Starts = {} THEN NoMatch
       ELSE LET i == CHOOSE i \in Starts : \A k \in Starts : i <= k
                j == CHOOSE j \in Ends(i) : \A k \in Ends(i) : j >= k
            IN SubSeq(err, i + 1, j)

\* String.prototype.split(c)
RECURSIVE SplitAcc(_, _, _)
SplitAcc(s, c, cur) ==
    IF s = <<>> THEN <<cur>>
    ELSE IF Head(s) = c THEN <<cur>> \o SplitAcc(Tail(s), c, <<>>)
    ELSE SplitAcc(Tail(s), c, Append(cur, Head(s)))
split(s, c) == SplitAcc(s, c, <<>>)

\* main.js:328
convertQuotedName(name) == <<"$.">> \o normalizeRulename(ReplaceAll(Trim(name), "^", <<>>))
\* main.js:329
conflictOf(capture) ==
    LET names == split(capture, ",")
    IN <<"[">> \o Join([i \in DOMAIN names |-> convertQuotedName(names[i])], <<", ">>)
       \o <<"]">>

\* the chain with the add-conflict test moved before the precedence test
branchConflictFirst(e) ==
    IF emptyStringErr(e) # NoMatch THEN "inline"
    ELSE IF addConflict(e) # NoMatch THEN "conflict"
    ELSE IF higherPrecedence(e) # NoMatch THEN "precedence"
    ELSE IF associativity(e) # NoMatch THEN "associativity"
    ELSE "giveup"

\* main.js:319-336: the branch the if/else-if chain takes
branch(e) ==
    IF emptyStringErr(e) # NoMatch THEN "inline"
    ELSE IF higherPrecedence(e) # NoMatch THEN "precedence"
    ELSE IF associativity(e) # NoMatch THEN "associativity"
    ELSE IF addConflict(e) # NoMatch THEN "conflict"
    ELSE "giveup"

\* ------------------------------------------------------------------- state
VARIABLES
    pc,                \* Idle, Invoking, Diagnosing, Done, GivenUp, Crashed
    grammarSource,     \* main.js:266
    startRule,         \* main.js:267
    languageName,      \* main.js:268
    includeCoreRules,  \* main.js:269
    hiddenRules,       \* main.js:270
    inlineRules,       \* main.js:271
    conflicts,         \* main.js:272
    parsedGrammar,     \* main.js:274
    grammarFile,       \* the text of build/test/<name>/grammar.js
    err,               \* stderr of the last failed tree-sitter generate
    attempts,          \* number of times tree-sitter generate was spawned
    console,           \* the last message printed
    input,             \* translator runs: the case that is translated
    node,              \* translator runs: the syntax node given to convert
    output             \* translator runs: the result of convert

sessionVars == <<pc, grammarSource, startRule, languageName, includeCoreRules,
                 hiddenRules, inlineRules, conflicts, parsedGrammar, grammarFile,
                 err, attempts, console>>
convertVars == <<input, node, output>>
vars == <<pc, grammarSource, startRule, languageName, includeCoreRules,
          hiddenRules, inlineRules, conflicts, parsedGrammar, grammarFile,
          err, attempts, console, input, node, output>>

\* ------------------------------------------------------- the grammars parsed
OptionElement(alternation) ==
    Node("element", <<Node("option", <<Leaf("[", <<"[">>), alternation, Leaf("]", <<"]">>)>>)>>)

\* a = b c-d        b = *"x"        c-d = "y" / b
PlainGrammar ==
    SourceFile(<<
        Rule(<<"a">>, <<"=">>, SeqOf(<<RefElement(<<"b">>), RefElement(<<"c", "-", "d">>)>>)),
        Rule(<<"b">>, <<"=">>,
             Alternation(<<Concatenation(<<Repetition(<<Star>>,
                                              QuotedElement(<<"\"", "x", "\"">>))>>)>>)),
        Rule(<<"c", "-", "d">>, <<"=">>,
             Alternation(<<Concatenation(<<Repetition1(QuotedElement(<<"\"", "y", "\"">>))>>),
                           Concatenation(<<Repetition1(RefElement(<<"b">>))>>)>>))
    >>)

\* a = b CR         b = ["x"]
CoreGrammar ==
    SourceFile(<<
        Rule(<<"a">>, <<"=">>, SeqOf(<<RefElement(<<"b">>), CoreElement(<<"C", "R">>)>>)),
        Rule(<<"b">>, <<"=">>,
             Single(OptionElement(Single(QuotedElement(<<"\"", "x", "\"">>)))))
    >>)

\* a = "x"          a /= "y"
IncrementalGrammar ==
    SourceFile(<<
        Rule(<<"a">>, <<"=">>, Single(QuotedElement(<<"\"", "x", "\"">>))),
        Rule(<<"a">>, <<"/", "=">>, Single(QuotedElement(<<"\"", "y", "\"">>)))
    >>)

\* main.js:19-28: the tree the ABNF parser returns for a source file
abnfGrammar(abnfFile) ==
    CASE abnfFile = "examples/abnf/plain.abnf" -> PlainGrammar
      [] abnfFile = "examples/abnf/core.abnf" -> CoreGrammar
      [] abnfFile = "examples/abnf/incremental.abnf" -> IncrementalGrammar

\* path.basename(source, path.extname(source)), main.js:13
basename(source) ==
    CASE source = "examples/abnf/plain.abnf" -> <<"plain">>
      [] source = "examples/abnf/core.abnf" -> <<"core">>
      [] source = "examples/abnf/incremental.abnf" -> <<"incremental">>

\* the option records given to abnf(), as in main.js:346-367
Options ==
    [source : {"examples/abnf/plain.abnf"}, startRule : {<<"a">>},
     usesCoreRules : {FALSE},
     hiddenRules : {<<>>, <<<<"c", "-", "d">>>>, <<<<"a">>>>, <<<<"b">>>>},
     inlineRules : {<<>>, <<<<"c", "-", "d">>>>}]
    \cup
    [source : {"examples/abnf/core.abnf"}, startRule : {<<"a">>},
     usesCoreRules : {TRUE},
     hiddenRules : {<<>>, <<<<"b">>>>, <<<<"C", "R">>>>},
     inlineRules : {<<>>}]
    \cup
    [source : {"examples/abnf/incremental.abnf"}, startRule : {<<"a">>},
     usesCoreRules : {FALSE}, hiddenRules : {<<>>}, inlineRules : {<<>>}]

NoInput == [kind |-> "none"]
NoNode == Leaf("none", <<>>)

\* main.js:5-17 and 265-274: the session object abnf(options) returns
Init ==
    \E options \in Options :
        /\ pc = "Idle"
        /\ grammarSource = options.source
        /\ startRule = normalizeRulename(options.startRule)
        /\ languageName = basename(options.source)
        /\ includeCoreRules = options.usesCoreRules
        /\ hiddenRules = [i \in DOMAIN options.hiddenRules |->
                             normalizeRulename(options.hiddenRules[i])]
        /\ inlineRules = [i \in DOMAIN options.inlineRules |->
                             normalizeRulename(options.inlineRules[i])]
        /\ conflicts = <<>>
        /\ parsedGrammar = abnfGrammar(options.source)
        /\ grammarFile = <<>>
        /\ err = <<>>
        /\ attempts = 0
        /\ console = <<>>
        /\ input = NoInput
        /\ node = NoNode
        /\ output = <<>>

\* main.js:276, for the inline set and conflict list the session holds when
\* generate() runs
treeSitter(inl, conf) ==
    toTreeSitter(parsedGrammar,
                 [startRule |-> startRule, langName |-> languageName,
                  includeCoreRules |-> includeCoreRules, inlineRules |-> inl,
                  conflicts |-> conf, hiddenRules |-> hiddenRules])

\* main.js:284-298: write grammar.js and spawn tree-sitter generate; an
\* exception of treeSitter() ends the program before anything is written
generate(inl, conf) ==
    LET r == treeSitter(inl, conf)
    IN IF r.thrown
       THEN /\ pc' = "Crashed"
            /\ console' = r.text
            /\ UNCHANGED <<grammarFile, attempts>>
       ELSE /\ pc' = "Invoking"
            /\ grammarFile' = r.text
            /\ attempts' = attempts + 1
            /\ console' = <<"Generating tree-sitter grammar from grammar.js ...">>

\* the first call of generate(), main.js:369-371
Generate ==
    /\ pc = "Idle"
    /\ generate(inlineRules, conflicts)
    /\ UNCHANGED <<grammarSource, startRule, languageName, includeCoreRules,
                   hiddenRules, inlineRules, conflicts, parsedGrammar, err>>
    /\ UNCHANGED convertVars

\* the rules tree-sitter reports about: the grammar's rules of the descriptor
\* it was given, under the names they are emitted with
ReportableNames ==
    (DefinedNames(RulesSection(grammarFile)) \ CoreNames) \ {SourceFileName}

\* the stderr texts of a failed run: any of the four known suggestions, alone
\* or together, or an unknown message
Diagnostics ==
    LET N == ReportableNames
        Other(X) == IF N \ {X} = {} THEN X ELSE CHOOSE Y \in N \ {X} : TRUE
    IN {UnknownText}
       \cup {(IF "e" \in f THEN EmptyStringText(X) ELSE <<>>)
             \o (IF f \cap {"p", "a", "c"} # {} THEN UnknownText ELSE <<>>)
             \o (IF "p" \in f THEN PrecedenceText(X) ELSE <<>>)
             \o (IF "a" \in f THEN AssociativityText(X) ELSE <<>>)
             \o (IF "c" \in f THEN ConflictText(X, Other(X)) ELSE <<>>) :
               f \in (SUBSET {"e", "p", "a", "c"}) \ {{}}, X \in N}

\* main.js:299-301
GeneratorSucceeds ==
    /\ pc = "Invoking"
    /\ pc' = "Done"
    /\ console' = <<"Success!">>
    /\ UNCHANGED <<grammarSource, startRule, languageName, includeCoreRules,
                   hiddenRules, inlineRules, conflicts, parsedGrammar, grammarFile,
                   err, attempts>>
    /\ UNCHANGED convertVars

\* main.js:302-304
GeneratorFails ==
    /\ pc = "Invoking"
    /\ \E e \in Diagnostics : err' = e
    /\ pc' = "Diagnosing"
    /\ console' = err'
    /\ UNCHANGED <<grammarSource, startRule, languageName, includeCoreRules,
                   hiddenRules, inlineRules, conflicts, parsedGrammar, grammarFile,
                   attempts>>
    /\ UNCHANGED convertVars

\* the empty-string branch pushing the name onto the hidden list
InlineRuleHides ==
    /\ pc = "Diagnosing"
    /\ branch(err) = "inline"
    /\ attempts < MaxAttempts
    /\ hiddenRules' = Append(hiddenRules, emptyStringErr(err))
    /\ generate(inlineRules, conflicts)
    /\ err' = <<>>
    /\ UNCHANGED <<grammarSource, startRule, languageName, includeCoreRules,
                   inlineRules, conflicts, parsedGrammar>>
    /\ UNCHANGED convertVars

\* the empty-string branch with a cap on the retries: the second failure of a
\* session is not repaired
InlineRuleCapped ==
    /\ pc = "Diagnosing"
    /\ branch(err) = "inline"
    /\ attempts < MaxAttempts
    /\ IF attempts < 2
       THEN /\ inlineRules' = Append(inlineRules, emptyStringErr(err))
            /\ generate(inlineRules', conflicts)
            /\ err' = <<>>
       ELSE /\ pc' = "GivenUp"
            /\ console' = <<"Giving up.">>
            /\ UNCHANGED <<inlineRules, grammarFile, attempts, err>>
    /\ UNCHANGED <<grammarSource, startRule, languageName, includeCoreRules,
                   hiddenRules, conflicts, parsedGrammar>>
    /\ UNCHANGED convertVars

\* main.js:319-322
InlineRule ==
    /\ pc = "Diagnosing"
    /\ branch(err) = "inline"
    /\ attempts < MaxAttempts
    /\ inlineRules' = Append(inlineRules, emptyStringErr(err))
    /\ generate(inlineRules', conflicts)
    /\ err' = <<>>
    /\ UNCHANGED <<grammarSource, startRule, languageName, includeCoreRules,
                   hiddenRules, conflicts, parsedGrammar>>
    /\ UNCHANGED convertVars

\* main.js:323-324
SuggestPrecedence ==
    /\ pc = "Diagnosing"
    /\ branch(err) = "precedence"
    /\ pc' = "GivenUp"
    /\ console' = <<"Try specifying a higher precedence: '">> \o higherPrecedence(err)
                  \o <<"'">>
    /\ UNCHANGED <<grammarSource, startRule, languageName, includeCoreRules,
                   hiddenRules, inlineRules, conflicts, parsedGrammar, grammarFile,
                   err, attempts>>
    /\ UNCHANGED convertVars

\* main.js:325-326
SuggestAssociativity ==
    /\ pc = "Diagnosing"
    /\ branch(err) = "associativity"
    /\ pc' = "GivenUp"
    /\ console' = <<"Try specifying left or right associativity: '">>
                  \o associativity(err) \o <<"'">>
    /\ UNCHANGED <<grammarSource, startRule, languageName, includeCoreRules,
                   hiddenRules, inlineRules, conflicts, parsedGrammar, grammarFile,
                   err, attempts>>
    /\ UNCHANGED convertVars

\* the add-conflict branch only printing its suggestion
AddConflictSuggestOnly ==
    /\ pc = "Diagnosing"
    /\ branch(err) = "conflict"
    /\ pc' = "GivenUp"
    /\ console' = <<"Try adding conflict: ">> \o conflictOf(addConflict(err))
    /\ UNCHANGED <<grammarSource, startRule, languageName, includeCoreRules,
                   hiddenRules, inlineRules, conflicts, parsedGrammar, grammarFile,
                   err, attempts>>
    /\ UNCHANGED convertVars

\* main.js:327-333
AddConflict ==
    /\ pc = "Diagnosing"
    /\ branch(err) = "conflict"
    /\ attempts < MaxAttempts
    /\ conflicts' = Append(conflicts, conflictOf(addConflict(err)))
    /\ generate(inlineRules, conflicts')
    /\ err' = <<>>
    /\ UNCHANGED <<grammarSource, startRule, languageName, includeCoreRules,
                   hiddenRules, inlineRules, parsedGrammar>>
    /\ UNCHANGED convertVars

\* main.js:334-336
GiveUp ==
    /\ pc = "Diagnosing"
    /\ branch(err) = "giveup"
    /\ pc' = "GivenUp"
    /\ console' = <<"Giving up :(">>
    /\ UNCHANGED <<grammarSource, startRule, languageName, includeCoreRules,
                   hiddenRules, inlineRules, conflicts, parsedGrammar, grammarFile,
                   err, attempts>>
    /\ UNCHANGED convertVars

Next ==
    \/ Generate
    \/ GeneratorSucceeds
    \/ GeneratorFails
    \/ InlineRule
    \/ SuggestPrecedence
    \/ SuggestAssociativity
    \/ AddConflict
    \/ GiveUp

Spec == Init /\ [][Next]_vars

\* ------------------------------------------------------- translator runs
\* convert applied to one syntax node, with the arguments toTreeSitter has by
\* default for a session with no hidden, inline or conflict entries
Absent == -1

GroupElement(alternation) ==
    Node("element", <<Node("group", <<Leaf("(", <<"(">>), alternation, Leaf(")", <<")">>)>>)>>)

ElementOf(k) ==
    CASE k = 1 -> RefElement(<<"b">>)
      [] k = 2 -> QuotedElement(<<"\"", "x", "\"">>)
      [] k = 3 -> GroupElement(Alternation(<<
                      Concatenation(<<Repetition1(QuotedElement(<<"\"", "x", "\"">>))>>),
                      Concatenation(<<Repetition1(QuotedElement(<<"\"", "y", "\"">>))>>)>>))
      [] OTHER -> RefElement(<<"c", "-", "d">>)

RepetitionInputs ==
    [kind : {"repetition"}, star : {TRUE}, lower : {Absent} \cup 0..MaxRepeat,
     upper : {Absent} \cup 0..MaxRepeat, element : {1, 3}]
    \cup
    {[kind |-> "repetition", star |-> FALSE, lower |-> n, upper |-> n, element |-> e] :
        n \in 0..MaxRepeat, e \in {1, 3}}

RepetitionNode(in) ==
    Repetition(IF in.star
               THEN (IF in.lower = Absent THEN <<>> ELSE Digits(in.lower)) \o <<Star>>
                    \o (IF in.upper = Absent THEN <<>> ELSE Digits(in.upper))
               ELSE Digits(in.lower),
               ElementOf(in.element))

HexAlphabet == {"0", "1", "4", "e"}
RECURSIVE SeqsUpTo(_, _)
SeqsUpTo(S, n) ==
    IF n = 0 THEN {<<>>}
    ELSE LET shorter == SeqsUpTo(S, n - 1)
         IN shorter \cup {Append(q, c) : q \in {r \in shorter : Len(r) = n - 1}, c \in S}

HexInputs ==
    {[kind |-> "hex_val", digits |-> d] : d \in SeqsUpTo(HexAlphabet, MaxHexTokens - 1) \ {<<>>}}

HexNode(in) ==
    Node("hex_val", <<Leaf("x", <<"x">>)>>
                    \o [i \in DOMAIN in.digits |-> Leaf("HEXDIG", <<in.digits[i]>>)])

\* an alternation or concatenation: "m" is a meaningful child, "c" a comment
ListShapes == SeqsUpTo({"m", "c"}, 3) \ {<<>>, <<"c">>, <<"c", "c">>, <<"c", "c", "c">>}
ListInputs ==
    [kind : {"list"}, type : {"alternation", "concatenation"}, shape : ListShapes]
    \cup [kind : {"repetition1"}, element : 1..4]

Meaningful(type, i) ==
    IF type = "alternation" THEN Concatenation(<<Repetition1(ElementOf(i))>>)
    ELSE Repetition1(ElementOf(i))

ListNode(in) ==
    IF in.kind = "repetition1" THEN Repetition1(ElementOf(in.element))
    ELSE Node(in.type, [i \in DOMAIN in.shape |->
                           IF in.shape[i] = "m" THEN Meaningful(in.type, i)
                           ELSE Comment(<<";", " ", "n", "\n">>)])

\* a rule list: rule i is defined with operator ops[i]
RuleNames == <<<<"a">>, <<"b">>, <<"c", "-", "d">>>>
GrammarInputs ==
    {[kind |-> "grammar", ops |-> o] : o \in SeqsUpTo({<<"=">>, <<"/", "=">>}, 3) \ {<<>>}}
GrammarNode(in) ==
    SourceFile([i \in DOMAIN in.ops |->
                   Rule(RuleNames[i], in.ops[i], Single(QuotedElement(<<"\"", "x", "\"">>)))])

\* a rule list of one or two rules with different ABNF names, every rule
\* defined with "=", translated with or without the core rules and with at
\* most one hidden rule
RulenameChoices ==
    {<<"a">>, <<"c", "-", "d">>, <<"C", "R">>,
     <<"s", "o", "u", "r", "c", "e", "-", "f", "i", "l", "e">>}
RulenameInputs ==
    {[kind |-> "rulenames", names |-> n, usesCoreRules |-> u, hiddenRules |-> h] :
        n \in {<<x>> : x \in RulenameChoices}
               \cup {<<x, y>> : <<x, y>> \in {p \in RulenameChoices \X RulenameChoices :
                                                 p[1] # p[2]}},
        u \in BOOLEAN,
        h \in {<<>>} \cup {<<x>> : x \in RulenameChoices}}
RulenameNode(in) ==
    SourceFile([i \in DOMAIN in.names |->
                   Rule(in.names[i], <<"=">>, Single(QuotedElement(<<"\"", "x", "\"">>)))])

InitConvert ==
    /\ pc = "Ready"
    /\ grammarSource = "none"
    /\ startRule = <<"a">>
    /\ languageName = <<"the_language_name">>
    /\ \/ input \in RepetitionInputs /\ node = RepetitionNode(input)
       \/ input \in HexInputs /\ node = HexNode(input)
       \/ input \in ListInputs /\ node = ListNode(input)
       \/ input \in GrammarInputs /\ node = GrammarNode(input)
       \/ input \in RulenameInputs /\ node = RulenameNode(input)
    /\ includeCoreRules = (input.kind = "rulenames" /\ input.usesCoreRules)
    /\ hiddenRules = (IF input.kind = "rulenames"
                      THEN [i \in DOMAIN input.hiddenRules |->
                               normalizeRulename(input.hiddenRules[i])]
                      ELSE <<>>)
    /\ inlineRules = <<>>
    /\ conflicts = <<>>
    /\ parsedGrammar = NoNode
    /\ grammarFile = <<>>
    /\ err = <<>>
    /\ attempts = 0
    /\ console = <<>>
    /\ output = [thrown |-> FALSE, text |-> <<>>]

\* main.js:261-262 for the node of the run
arguments ==
    [startRule |-> startRule, langName |-> languageName,
     includeCoreRules |-> includeCoreRules, inlineRules |-> inlineRules,
     conflicts |-> conflicts, hiddenRules |-> hiddenRules]
convertNode == toTreeSitter(node, arguments)

TranslateRepetition ==
    /\ pc = "Ready"
    /\ input.kind = "repetition"
    /\ output' = convertNode
    /\ pc' = "Translated"
    /\ UNCHANGED <<grammarSource, startRule, languageName, includeCoreRules,
                   hiddenRules, inlineRules, conflicts, parsedGrammar, grammarFile,
                   err, attempts, console, input, node>>

TranslateHexVal ==
    /\ pc = "Ready"
    /\ input.kind = "hex_val"
    /\ output' = convertNode
    /\ pc' = "Translated"
    /\ UNCHANGED <<grammarSource, startRule, languageName, includeCoreRules,
                   hiddenRules, inlineRules, conflicts, parsedGrammar, grammarFile,
                   err, attempts, console, input, node>>

TranslateList ==
    /\ pc = "Ready"
    /\ input.kind \in {"list", "repetition1"}
    /\ output' = convertNode
    /\ pc' = "Translated"
    /\ UNCHANGED <<grammarSource, startRule, languageName, includeCoreRules,
                   hiddenRules, inlineRules, conflicts, parsedGrammar, grammarFile,
                   err, attempts, console, input, node>>

TranslateGrammar ==
    /\ pc = "Ready"
    /\ input.kind = "grammar"
    /\ output' = convertNode
    /\ pc' = "Translated"
    /\ UNCHANGED <<grammarSource, startRule, languageName, includeCoreRules,
                   hiddenRules, inlineRules, conflicts, parsedGrammar, grammarFile,
                   err, attempts, console, input, node>>

TranslateRulenames ==
    /\ pc = "Ready"
    /\ input.kind = "rulenames"
    /\ output' = convertNode
    /\ pc' = "Translated"
    /\ UNCHANGED <<grammarSource, startRule, languageName, includeCoreRules,
                   hiddenRules, inlineRules, conflicts, parsedGrammar, grammarFile,
                   err, attempts, console, input, node>>

NextConvert ==
    \/ TranslateRepetition
    \/ TranslateHexVal
    \/ TranslateList
    \/ TranslateGrammar
    \/ TranslateRulenames

SpecConvert == InitConvert /\ [][NextConvert]_vars

\* ------------------------------------------------------------- properties
Range(arr) == {arr[i] : i \in DOMAIN arr}

Contains(text, sub) ==
    \E i \in 0..(Len(text) - Len(sub)) : SubSeq(text, i + 1, i + Len(sub)) = sub

Written == pc \in {"Invoking", "Diagnosing", "Done", "GivenUp"}
RuleNamesIn(text) == DefinedNames(RulesSection(text))

SaysEmpty(X) == Contains(err, EmptyStringText(X))
SaysPrecedence == \E X \in ReportableNames : Contains(err, PrecedenceText(X))
SaysAssociativity == \E X \in ReportableNames : Contains(err, AssociativityText(X))
SaysConflict(X, Y) == Contains(err, ConflictText(X, Y))
SaysNothingKnown ==
    /\ ~ \E X \in ReportableNames : SaysEmpty(X)
    /\ ~ SaysPrecedence
    /\ ~ SaysAssociativity
    /\ ~ \E X, Y \in ReportableNames : SaysConflict(X, Y)

GroupText(X, Y) == <<"[", "$.">> \o X \o <<", ", "$.">> \o Y \o <<"]">>

\* C1: a failed attempt whose diagnostic reads "The rule X matches the empty
\* string." is followed by exactly one further generator run, with X appended
\* to the inline set and every other session field unchanged.
C1_EmptyStringRetriesOnce ==
    [][\A X \in ReportableNames :
          (pc = "Diagnosing" /\ SaysEmpty(X)) =>
              /\ inlineRules' = Append(inlineRules, X)
              /\ attempts' = attempts + 1
              /\ pc' = "Invoking"
              /\ UNCHANGED <<grammarSource, startRule, languageName,
                             includeCoreRules, hiddenRules, conflicts>>]_vars

\* a retry made for an empty-string diagnostic has been spawned
C1_Witness ==
    /\ pc = "Invoking"
    /\ attempts = 2
    /\ conflicts = <<>>
    /\ inlineRules # <<>>
    /\ inlineRules[Len(inlineRules)] \notin RuleNamesIn(grammarFile)

\* C2 as stated: every diagnostic that carries the add-conflict suggestion,
\* whatever else it carries, adds the group and runs the generator again.
C2_AnyConflictTextRetries ==
    [][\A X, Y \in ReportableNames :
          (pc = "Diagnosing" /\ SaysConflict(X, Y)) =>
              /\ conflicts' = Append(conflicts, GroupText(X, Y))
              /\ attempts' = attempts + 1
              /\ pc' = "Invoking"]_vars

\* C2 amended: a diagnostic that carries the add-conflict suggestion and none
\* of the empty-string, higher-precedence and associativity messages adds the
\* group of normalized names to the conflict list and runs the generator again.
C2_ConflictOnlyRetries ==
    [][\A X, Y \in ReportableNames :
          (/\ pc = "Diagnosing"
           /\ SaysConflict(X, Y)
           /\ ~ \E Z \in ReportableNames : SaysEmpty(Z)
           /\ ~ SaysPrecedence
           /\ ~ SaysAssociativity) =>
              /\ conflicts' = Append(conflicts, GroupText(X, Y))
              /\ attempts' = attempts + 1
              /\ pc' = "Invoking"
              /\ Contains(ConflictsSection(grammarFile'), GroupText(X, Y))
              /\ UNCHANGED <<inlineRules, hiddenRules>>]_vars

\* a retry made for an add-conflict diagnostic has been spawned
C2_Witness ==
    /\ pc = "Invoking"
    /\ attempts = 2
    /\ Len(conflicts) = 1
    /\ Contains(ConflictsSection(grammarFile), conflicts[1])
    /\ References(conflicts[1]) # {}

Stops ==
    /\ pc' = "GivenUp"
    /\ UNCHANGED <<grammarSource, startRule, languageName, includeCoreRules,
                   hiddenRules, inlineRules, conflicts, grammarFile, attempts>>

\* C3 as stated: a diagnostic that asks for a higher precedence or for
\* associativity, or matches no known pattern, stops the session with no
\* field changed, and the generator is never run again.
C3_PrecedenceAlwaysStops ==
    [][/\ (pc = "Diagnosing" /\ (SaysPrecedence \/ SaysAssociativity \/ SaysNothingKnown))
            => Stops
       /\ pc = "GivenUp" => (pc' = "GivenUp" /\ attempts' = attempts)]_vars

\* C3 amended: a diagnostic without the empty-string message that asks for a
\* higher precedence or for associativity, and a diagnostic that matches no
\* known pattern, stop the session with no field changed, and the generator is
\* never run again.
C3_UnfixableStops ==
    [][/\ (/\ pc = "Diagnosing"
           /\ ~ \E Z \in ReportableNames : SaysEmpty(Z)
           /\ (SaysPrecedence \/ SaysAssociativity \/ SaysNothingKnown))
            => Stops
       /\ pc = "GivenUp" => (pc' = "GivenUp" /\ attempts' = attempts)]_vars

\* the session has stopped on a precedence request that came with an
\* add-conflict suggestion
C3_Witness ==
    /\ pc = "GivenUp"
    /\ SaysPrecedence
    /\ \E X, Y \in ReportableNames : SaysConflict(X, Y)
    /\ conflicts = <<>>

\* C4: in every descriptor written, no name of the inline set is defined as a
\* named rule, and no reference names it.
C4_InlinedNeverNamed ==
    Written =>
        \A n \in Range(inlineRules) :
            /\ n \notin RuleNamesIn(grammarFile)
            /\ n \notin References(RulesSection(grammarFile))

\* C5: in every descriptor written, a hidden name appears only with its marker:
\* it is not defined and not referenced under its unmarked name, and its
\* marked references name a defined rule.
C5_HiddenMarkedEverywhere ==
    Written =>
        \A h \in Range(hiddenRules) :
            /\ h \notin RuleNamesIn(grammarFile)
            /\ h \notin References(RulesSection(grammarFile))
            /\ (<<"_">> \o h) \in References(RulesSection(grammarFile))
                  => (<<"_">> \o h) \in RuleNamesIn(grammarFile)

\* C6: in every descriptor written, the conflict groups name only rules that
\* are defined in that descriptor.
C6_ConflictsNameRules ==
    Written =>
        References(ConflictsSection(grammarFile)) \subseteq RuleNamesIn(grammarFile)

\* ------------------------------------------- what an emitted expression accepts
Opens == {"seq(", "choice(", "repeat(", "repeat1(", "optional("}

\* the arguments of a call: the text between its parentheses, split at the
\* separators that are not inside a nested call
RECURSIVE SplitTop(_, _, _)
SplitTop(s, depth, cur) ==
    IF s = <<>> THEN <<cur>>
    ELSE IF Head(s) = ", " /\ depth = 0 THEN <<cur>> \o SplitTop(Tail(s), 0, <<>>)
    ELSE SplitTop(Tail(s),
                  IF Head(s) \in Opens THEN depth + 1
                  ELSE IF Head(s) = ")" THEN depth - 1 ELSE depth,
                  Append(cur, Head(s)))

\* JavaScript allows one trailing comma in an argument list
Arguments(inner) ==
    IF inner = <<>> THEN <<>>
    ELSE LET parts == SplitTop(inner, 0, <<>>)
         IN IF Len(parts) >= 2 /\ parts[Len(parts)] = <<>>
            THEN SubSeq(parts, 1, Len(parts) - 1)
            ELSE parts

\* does expression text accept exactly n consecutive occurrences of element e
Accepts(text, e, n) ==
    LET one == e
        opt == <<"optional(">> \o e \o <<")">>
        many == <<"repeat(">> \o e \o <<")">>
        many1 == <<"repeat1(">> \o e \o <<")">>
    IN
    IF text = one THEN n = 1
    ELSE IF text = many THEN TRUE
    ELSE IF text = many1 THEN n >= 1
    ELSE IF text = opt THEN n <= 1
    ELSE IF Len(text) >= 2 /\ Head(text) = "seq(" /\ text[Len(text)] = ")" THEN
        LET args == Arguments(SubSeq(text, 2, Len(text) - 1))
            Count(k) == Cardinality({i \in DOMAIN args : args[i] = k})
        IN /\ \A i \in DOMAIN args : args[i] \in {one, opt, many}
           /\ n >= Count(one)
           /\ (Count(many) > 0 \/ n <= Count(one) + Count(opt))
    ELSE FALSE

\* C7: the expression emitted for a repeat operator with lower bound L and
\* upper bound U (bounded or not) accepts exactly the counts n with
\* L <= n <= U; no expression is emitted (a RangeError is thrown) exactly when
\* U is bounded and below L.
C7_RepetitionCounts ==
    (pc = "Translated" /\ input.kind = "repetition") =>
        LET L == IF input.lower = Absent THEN 0 ELSE input.lower
            U == input.upper
            e == convert(ElementOf(input.element), arguments)
        IN IF U # Absent /\ L > U THEN output.thrown
           ELSE /\ ~output.thrown
                /\ \A n \in 0..(MaxRepeat + 2) :
                      Accepts(output.text, e, n) <=> (L <= n /\ (U = Absent \/ n <= U))

\* the operator 2*3 has been translated
C7_Witness ==
    /\ pc = "Translated"
    /\ input.kind = "repetition"
    /\ input.star
    /\ input.lower = 2
    /\ input.upper = 3
    /\ ~output.thrown
    /\ Len(output.text) > 2

\* ------------------------------------------------ JavaScript string literals
HexDigitValue(c) ==
    CASE c = "a" \/ c = "A" -> 10 [] c = "b" \/ c = "B" -> 11
      [] c = "c" \/ c = "C" -> 12 [] c = "d" \/ c = "D" -> 13
      [] c = "e" \/ c = "E" -> 14 [] c = "f" \/ c = "F" -> 15
      [] OTHER -> DigitValue(c)

RECURSIVE HexValue(_, _)
HexValue(digits, acc) ==
    IF digits = <<>> THEN acc
    ELSE HexValue(Tail(digits), 16 * acc + HexDigitValue(Head(digits)))

\* the code unit of a character written literally
CharCode(c) ==
    IF DigitValue(c) # NaN THEN 48 + DigitValue(c)
    ELSE IF c \in {"a", "b", "c", "d", "e", "f"} THEN 87 + HexDigitValue(c)
    ELSE 55 + HexDigitValue(c)

\* the characters of the string a literal's body denotes: \u takes exactly four
\* hex digits, \x exactly two
RECURSIVE DecodeBody(_)
DecodeBody(s) ==
    IF s = <<>> THEN <<>>
    ELSE IF Head(s) = "\\u" /\ Len(s) >= 5
         THEN <<HexValue(SubSeq(s, 2, 5), 0)>> \o DecodeBody(SubSeq(s, 6, Len(s)))
    ELSE IF Head(s) = "\\x" /\ Len(s) >= 3
         THEN <<HexValue(SubSeq(s, 2, 3), 0)>> \o DecodeBody(SubSeq(s, 4, Len(s)))
    ELSE <<CharCode(Head(s))>> \o DecodeBody(Tail(s))

DecodeLiteral(text) ==
    IF Len(text) >= 2 /\ Head(text) = "\"" /\ text[Len(text)] = "\""
    THEN DecodeBody(SubSeq(text, 2, Len(text) - 1))
    ELSE <<>>

\* C8: a hex single value of at most 7 tokens is emitted as a literal of exactly
\* one character, whose codepoint is the value of the hex digits.
C8_HexSingleValue ==
    (pc = "Translated" /\ input.kind = "hex_val" /\ Len(node.children) <= 7) =>
        /\ ~output.thrown
        /\ DecodeLiteral(output.text) = <<HexValue(input.digits, 0)>>

C10_SingleChildUnwraps ==
    /\ (pc = "Translated" /\ input.kind = "list"
          /\ Cardinality({i \in DOMAIN input.shape : input.shape[i] = "m"}) = 1) =>
          LET i == CHOOSE i \in DOMAIN input.shape : input.shape[i] = "m"
          IN output.text = convert(Meaningful(input.type, i), arguments)
    /\ (pc = "Translated" /\ input.kind = "repetition1") =>
          output.text = convert(ElementOf(input.element), arguments)


\* the places of a text where a rule is named, and the names written there
DefinitionSites(text) == DefinedAt(RulesSection(text))
NameDefinedAt(text, i) == IdBefore(RulesSection(text), i - 1)

\* C11: in every emitted descriptor the rule names are pairwise distinct: no
\* name is written twice as the name of a rule, counting the source_file
\* start rule, the translated grammar rules (normalized and marked hidden)
\* and the core-rule block when the core-rule flag is set.
C11_RuleNamesDistinct ==
    (pc = "Translated" /\ input.kind = "rulenames" /\ ~output.thrown) =>
        \A i, j \in DefinitionSites(output.text) :
            i # j => NameDefinedAt(output.text, i) # NameDefinedAt(output.text, j)

\* a failure the session repairs by itself: the diagnostic names a rule that
\* matches the empty string, or it suggests a conflict and asks neither for a
\* higher precedence nor for associativity
AutoFixable ==
    \/ \E X \in ReportableNames : SaysEmpty(X)
    \/ /\ \E X, Y \in ReportableNames : SaysConflict(X, Y)
       /\ ~ SaysPrecedence
       /\ ~ SaysAssociativity

\* every diagnostic the generator returns is one the session repairs by itself
OnlyFixableDiagnostics == [](pc = "Diagnosing" => AutoFixable)

\* C12: a session stops only when the generator exits with status 0 (Done) or
\* on a diagnostic that is not auto-fixable (GivenUp); every auto-fixable
\* failure is followed by a further generator run, whatever the number of
\* runs made so far, and a session that has run the generator ends in no
\* other way; so against a generator that answers every run with an
\* empty-string or add-conflict diagnostic (it never exits with status 0, and
\* Done is not reached) the session never reaches GivenUp.
C12_StopsOnlyOnDoneOrGivenUp ==
    /\ [][/\ pc' = "Done" => pc = "Invoking"
          /\ pc' = "GivenUp" => (pc = "Diagnosing" /\ ~ AutoFixable)
          /\ (pc = "Diagnosing" /\ AutoFixable) =>
                 (pc' = "Invoking" /\ attempts' = attempts + 1)
          /\ pc \in {"Invoking", "Diagnosing"} =>
                 pc' \in {"Invoking", "Diagnosing", "Done", "GivenUp"}]_vars
    /\ OnlyFixableDiagnostics => [](pc # "GivenUp")

\* the generator is running for the last time the bound allows, every earlier
\* run having failed and been repaired, once with a conflict group and
\* otherwise by inlining
C12_Witness ==
    /\ pc = "Invoking"
    /\ attempts = MaxAttempts
    /\ Len(conflicts) = 1
    /\ inlineRules # <<>>

====
